---- MODULE Spec2Model ----
(***************************************************************************)
(* A model of natal's configuration model (natal/config.py: Dictable,      *)
(* Theme, Config, get_translation) and statistics engine (natal/stats.py:  *)
(* Stats).                                                                 *)
(*                                                                         *)
(* Strings.  A Python str is modelled as a sequence of tokens, the words   *)
(* that str.split() yields.  A token is a record                           *)
(*     [parts |-> <<p1, ..., pn>>, cs |-> rendering]                        *)
(* standing for the pieces p1_p2_..._pn joined by underscores, rendered    *)
(* "lower" (house), "title" (House), "upper" (HOUSE), or as the entry of   *)
(* the TRANSLATIONS table in a language ("ru", "ko", "es").                *)
(***************************************************************************)
EXTENDS Integers, Sequences, FiniteSets, TLC

VARIABLES
    lang,       \* Stats.lang
    data1,      \* Stats.data1
    data2,      \* Stats.data2: <<>> for None, <<d>> for a Data d
    composite_pairs,    \* Stats.composite_pairs
    composite_aspects,  \* Stats.composite_aspects
    config,     \* a Config object
    nops,       \* the number of set and update calls made on it
    call,       \* the operation called last, with its arguments
    ret         \* what that call returned (or the exception it raised)

vars ==
    <<lang, data1, data2, composite_pairs, composite_aspects, config, nops,
      call, ret>>

----------------------------------------------------------------------------
(* Bounds of the model *)

MaxTextLen == 3

MaxPlanets == 3

MaxHouses == 2

MaxAspects == 2

MaxOps == 2

----------------------------------------------------------------------------
(* Strings *)

Word(s) == [parts |-> <<s>>, cs |-> "lower"]

UWord(a, b) == [parts |-> <<a, b>>, cs |-> "lower"]

Str(s) == <<Word(s)>>

DigitWords == {ToString(i) : i \in 0..12}

\* str.isdigit() of one word
IsDigit(tok) == Len(tok.parts) = 1 /\ tok.parts[1] \in DigitWords

\* the character case of a rendering: digits have none
Cased(p, cs) == IF p \in DigitWords THEN "lower" ELSE cs

\* str.lower()
Lower(text) ==
    [i \in 1..Len(text) |->
        [parts |-> text[i].parts,
         cs |-> IF text[i].cs \in {"lower", "title", "upper"}
                THEN "lower" ELSE text[i].cs]]

\* str.title() of one word: every piece capitalised, the underscores kept
TitleWord(tok) ==
    [parts |-> tok.parts,
     cs |-> IF Len(tok.parts) = 1 THEN Cased(tok.parts[1], "title") ELSE "title"]

RECURSIVE Flatten(_)
Flatten(seqs) ==
    IF seqs = <<>> THEN <<>> ELSE Head(seqs) \o Flatten(Tail(seqs))

\* text.replace("_", " ").title(): each underscore-separated piece becomes a
\* word of its own, capitalised
Title(text) ==
    Flatten([i \in 1..Len(text) |->
        [j \in 1..Len(text[i].parts) |->
            [parts |-> <<text[i].parts[j]>>,
             cs |-> Cased(text[i].parts[j], "title")]]])

\* the keys of the TRANSLATIONS table, each as its underscore-separated pieces
TranslationKeys ==
    { <<"sun">>, <<"moon">>, <<"mercury">>, <<"venus">>, <<"mars">>,
      <<"jupiter">>, <<"saturn">>, <<"uranus">>, <<"neptune">>, <<"pluto">>,
      <<"asc", "node">>, <<"chiron">>, <<"ceres">>, <<"pallas">>, <<"juno">>,
      <<"vesta">>,
      <<"aries">>, <<"taurus">>, <<"gemini">>, <<"cancer">>, <<"leo">>,
      <<"virgo">>, <<"libra">>, <<"scorpio">>, <<"sagittarius">>,
      <<"capricorn">>, <<"aquarius">>, <<"pisces">>,
      <<"conjunction">>, <<"opposition">>, <<"trine">>, <<"square">>,
      <<"sextile">>, <<"quincunx">>,
      <<"fire">>, <<"earth">>, <<"air">>, <<"water">>,
      <<"cardinal">>, <<"fixed">>, <<"mutable">>,
      <<"positive">>, <<"negative">>,
      <<"asc">>, <<"dsc">>, <<"mc">>, <<"ic">>,
      <<"ruler">>, <<"detriment">>, <<"exaltation">>, <<"fall">>,
      <<"house">>, <<"distribution">>, <<"quadrant">>, <<"hemisphere">>,
      <<"basic", "info">>, <<"element", "distribution">>,
      <<"modality", "distribution">>, <<"polarity", "distribution">>,
      <<"celestial", "bodies">>, <<"houses">>, <<"quadrants">>,
      <<"hemispheres">>, <<"aspects">>, <<"composite", "aspects">>,
      <<"cross", "aspects">> }

\* the languages every entry of the table has
TableLangs == {"ru", "ko", "es"}

\* TRANSLATIONS[key][l]: the translated string, one word of the output
TRANSLATIONS ==
    [k \in TranslationKeys |-> [l \in TableLangs |-> [parts |-> k, cs |-> l]]]

\* TRANSLATIONS.get(key, {}).get(l, default), key a whole lower-cased text
Lookup(key, l, default) ==
    IF /\ Len(key) = 1
       /\ key[1].cs = "lower"
       /\ key[1].parts \in DOMAIN TRANSLATIONS
       /\ l \in DOMAIN TRANSLATIONS[key[1].parts]
    THEN <<TRANSLATIONS[key[1].parts][l]>>
    ELSE default

get_translation(text, l) ==
    IF l = "en" THEN Title(text)
    ELSE LET key == Lower(text)
             parts == key
         IN  IF /\ Len(parts) > 1
                /\ IsDigit(parts[2])
                /\ parts[1].parts \in DOMAIN TRANSLATIONS
             THEN LET base_key == parts[1]
                      base_translation ==
                          IF l \in DOMAIN TRANSLATIONS[base_key.parts]
                          THEN TRANSLATIONS[base_key.parts][l]
                          ELSE TitleWord(base_key)
                  IN  <<base_translation, parts[2]>>
             ELSE Lookup(key, l, Title(text))

----------------------------------------------------------------------------
(* Results of a call: a value returned, or an exception raised *)

\* built: the StatData entries the call constructed
Res(exc, val, built) == [exc |-> exc, val |-> val, built |-> built]

Ok(v) == Res("None", v, 0)

----------------------------------------------------------------------------
(* The chart data Stats reads (natal.const, natal.data, natal.classes) *)

ELEMENT_MEMBERS == <<"fire", "earth", "air", "water">>

MODALITY_MEMBERS == <<"cardinal", "fixed", "mutable">>

POLARITY_MEMBERS == <<"positive", "negative">>

\* globals()[f"{dist_kind.value.upper()}_MEMBERS"]
MembersOf(kind) ==
    CASE kind = "element" -> ELEMENT_MEMBERS
      [] kind = "modality" -> MODALITY_MEMBERS
      [] kind = "polarity" -> POLARITY_MEMBERS

\* the signs the planets and houses of the model stand in
SignPool ==
    << [name |-> "aries", ruler |-> "mars", classic_ruler |-> "mars",
        detriment |-> "venus", classic_detriment |-> "venus",
        exaltation |-> "sun", fall |-> "saturn",
        element |-> "fire", modality |-> "cardinal", polarity |-> "positive"],
       [name |-> "taurus", ruler |-> "venus", classic_ruler |-> "venus",
        detriment |-> "pluto", classic_detriment |-> "mars",
        exaltation |-> "moon", fall |-> "uranus",
        element |-> "earth", modality |-> "fixed", polarity |-> "negative"],
       [name |-> "gemini", ruler |-> "mercury", classic_ruler |-> "mercury",
        detriment |-> "jupiter", classic_detriment |-> "jupiter",
        exaltation |-> "None", fall |-> "None",
        element |-> "air", modality |-> "mutable", polarity |-> "positive"],
       [name |-> "cancer", ruler |-> "moon", classic_ruler |-> "moon",
        detriment |-> "saturn", classic_detriment |-> "saturn",
        exaltation |-> "jupiter", fall |-> "mars",
        element |-> "water", modality |-> "cardinal", polarity |-> "negative"] >>

PlanetNames == <<"sun", "moon", "mercury", "venus", "mars">>

AspectNames == <<"conjunction", "opposition", "trine">>

\* the i-th planet of a chart, standing in sign number s
Planet(i, s) ==
    [name |-> PlanetNames[i], sign |-> SignPool[s],
     dms |-> "dms" \o ToString(i), house |-> ((3 * (i - 1)) % 12) + 1]

\* the i-th house of a chart
House(i) ==
    [value |-> i, sign |-> SignPool[((i - 1) % 4) + 1],
     ruler |-> SignPool[((i - 1) % 4) + 1].ruler]

\* the pairs (i, j), i < j, of n planets, in order
RECURSIVE PairsFrom(_, _, _)
PairsFrom(i, j, n) ==
    IF i >= n THEN <<>>
    ELSE IF j > n THEN PairsFrom(i + 1, i + 2, n)
    ELSE <<<<i, j>>>> \o PairsFrom(i, j + 1, n)

\* the k-th aspect of a chart: between the planets of its k-th pair
Aspect(planets, k) ==
    LET pr == PairsFrom(1, 2, Len(planets))[k]
    IN  [aspect_member |-> AspectNames[((k - 1) % 3) + 1],
         body1 |-> planets[pr[1]], body2 |-> planets[pr[2]],
         orb |-> 125 * k]

\* the charts of the model: up to MaxPlanets planets, each in a sign of the
\* pool, up to MaxHouses houses and up to MaxAspects aspects between planets
DataSet ==
    { [planets |-> [i \in 1..n |-> Planet(i, ss[i])],
       houses |-> [i \in 1..nh |-> House(i)],
       aspects |-> [k \in 1..na |-> Aspect([i \in 1..n |-> Planet(i, ss[i])], k)]] :
        <<n, ss, nh, na>> \in
          { q \in UNION { {n} \X [1..n -> 1..Len(SignPool)] \X (0..MaxHouses)
                              \X (0..MaxAspects) : n \in 0..MaxPlanets } :
                q[4] <= (q[1] * (q[1] - 1)) \div 2 } }

RECURSIVE SelectSeq2(_, _, _)
\* the planets of seq, in order, whose house is in S
SelectSeq2(seq, S, i) ==
    IF i > Len(seq) THEN <<>>
    ELSE (IF seq[i].house \in S THEN <<seq[i]>> ELSE <<>>)
         \o SelectSeq2(seq, S, i + 1)

\* data.quadrants: the planets of houses 1-3, 4-6, 7-9, 10-12
quadrants(data) ==
    [q \in 1..4 |-> SelectSeq2(data.planets, (3 * q - 2)..(3 * q), 1)]

\* data.east, data.west, data.north, data.south
hemisphere_of(data, name) ==
    CASE name = "east" -> SelectSeq2(data.planets, (1..3) \cup (10..12), 1)
      [] name = "west" -> SelectSeq2(data.planets, 4..9, 1)
      [] name = "north" -> SelectSeq2(data.planets, 1..6, 1)
      [] name = "south" -> SelectSeq2(data.planets, 7..12, 1)

\* data1.composite_aspects_pairs(data2): every planet of data1 with every
\* planet of data2
composite_aspects_pairs(d1, d2) ==
    Flatten([i \in 1..Len(d1.planets) |->
        [j \in 1..Len(d2.planets) |-> <<d1.planets[i], d2.planets[j]>>]])

RECURSIVE calculate_aspects(_)
\* data1.calculate_aspects(pairs): the pairs that stand in one element are
\* in aspect
calculate_aspects(pairs) ==
    IF pairs = <<>> THEN <<>>
    ELSE (IF /\ Head(pairs)[1].name # Head(pairs)[2].name
             /\ Head(pairs)[1].sign.element = Head(pairs)[2].sign.element
          THEN <<[aspect_member |-> "trine", body1 |-> Head(pairs)[1],
                  body2 |-> Head(pairs)[2], orb |-> 250]>>
          ELSE <<>>)
         \o calculate_aspects(Tail(pairs))

----------------------------------------------------------------------------
(* Stats *)

DistKind == <<"element", "modality", "polarity">>

ReportKind == {"full", "composite"}

StatData(title, grid) == [title |-> title, grid |-> grid]

\* a number formatted into a cell: f"{count}", f"{x:.2f}%", f"{x:.2f}°";
\* the number is kept (a percentage and an orb in hundredths)
Fmt(n, how) == <<[parts |-> <<n>>, cs |-> how]>>

_t(text) == get_translation(text, lang)

\* dignity_of with exaltation tested before detriment
dignity_of_exaltation_first(body, data) ==
    LET sign == body.sign
        dignity_type ==
            IF sign.ruler = body.name \/ sign.classic_ruler = body.name
            THEN "ruler"
            ELSE IF sign.exaltation = body.name THEN "exaltation"
            ELSE IF sign.detriment = body.name \/ sign.classic_detriment = body.name
            THEN "detriment"
            ELSE IF sign.fall = body.name THEN "fall"
            ELSE ""
    IN  IF dignity_type # "" THEN _t(Str(dignity_type)) ELSE <<>>

dignity_of(body, data) ==
    LET sign == body.sign
        dignity_type ==
            IF sign.ruler = body.name \/ sign.classic_ruler = body.name
            THEN "ruler"
            ELSE IF sign.detriment = body.name \/ sign.classic_detriment = body.name
            THEN "detriment"
            ELSE IF sign.exaltation = body.name THEN "exaltation"
            ELSE IF sign.fall = body.name THEN "fall"
            ELSE ""
    IN  IF dignity_type # "" THEN _t(Str(dignity_type)) ELSE <<>>

\* a name as a text: its underscore-separated pieces are one word
Name(parts) == <<[parts |-> parts, cs |-> "lower"]>>

basic_info(data) ==
    StatData(_t(Name(<<"basic", "info">>)),
        [i \in 1..Len(data.planets) |->
            LET body == data.planets[i]
            IN  << _t(Str(body.name)), _t(Str(body.sign.name)), Str(body.dms),
                   Str("h" \o ToString(body.house)), dignity_of(body, data) >>])

\* (count / total) * 100 formatted to two decimals, in hundredths
Percentage(count, total) == (2 * count * 10000 + total) \div (2 * total)

CountOf(kind, item) ==
    Cardinality({i \in 1..Len(data1.planets) :
                    data1.planets[i].sign[kind] = item})

\* distribution with count set to 0 once, before the loop over the items
distribution_count_not_reset(dist_kind) ==
    LET title == _t(Str(dist_kind)) \o _t(Str("distribution"))
        items == MembersOf(dist_kind)
        Upto(k) == Cardinality({i \in 1..Len(data1.planets) :
                      \E m \in 1..k : data1.planets[i].sign[dist_kind] = items[m]})
    IN  IF Len(items) > 0 /\ Len(data1.planets) = 0
        THEN Res("ZeroDivisionError", <<>>, 0)
        ELSE Res("None", StatData(title,
                [k \in 1..Len(items) |->
                    << _t(Str(items[k])),
                       Fmt(Upto(k), "int"),
                       Fmt(Percentage(Upto(k), Len(data1.planets)), "pct") >>]), 1)

distribution(dist_kind) ==
    LET title == _t(Str(dist_kind)) \o _t(Str("distribution"))
        items == MembersOf(dist_kind)
    IN  IF Len(items) > 0 /\ Len(data1.planets) = 0
        THEN Res("ZeroDivisionError", <<>>, 0)
        ELSE Res("None", StatData(title,
                [k \in 1..Len(items) |->
                    << _t(Str(items[k])),
                       Fmt(CountOf(dist_kind, items[k]), "int"),
                       Fmt(Percentage(CountOf(dist_kind, items[k]),
                                      Len(data1.planets)), "pct") >>]), 1)

celestial_body(body) ==
    StatData(_t(Str("aspects")) \o Str("for") \o _t(Str(body.name)),
        << << _t(Str(body.sign.name)), Str(body.dms) >>,
           << Str("h" \o ToString(body.house)), dignity_of(body, data1) >> >>)

house(h) ==
    StatData(_t(<<Word("house"), Word(ToString(h.value))>>),
        << << _t(Str(h.sign.name)),
              _t(Str("ruler")) \o Str(":") \o _t(Str(h.ruler)) >> >>)

BodyRows(bodies) ==
    [i \in 1..Len(bodies) |->
        << _t(Str(bodies[i].name)), _t(Str(bodies[i].sign.name)),
           Str(bodies[i].dms) >>]

quadrant(quadrant_num) ==
    StatData(_t(<<Word("quadrant"), Word(ToString(quadrant_num))>>),
        BodyRows(quadrants(data1)[quadrant_num]))

hemisphere(name) ==
    StatData(_t(Str(name)) \o _t(Str("hemisphere")),
        BodyRows(hemisphere_of(data1, name)))

aspect(a) ==
    StatData(_t(Str(a.aspect_member)),
        << << _t(Str(a.body1.name)), _t(Str(a.body2.name)),
              Fmt(a.orb, "deg") >> >>)

Hemispheres == <<"east", "west", "north", "south">>

\* the entries of a full report, when no builder raises
FullReportEntries ==
            <<basic_info(data1)>>
            \o [k \in 1..Len(DistKind) |-> distribution(DistKind[k]).val]
            \o <<StatData(_t(Name(<<"celestial", "bodies">>)), <<>>)>>
            \o [i \in 1..Len(data1.planets) |-> celestial_body(data1.planets[i])]
            \o <<StatData(_t(Str("houses")), <<>>)>>
            \o [i \in 1..Len(data1.houses) |-> house(data1.houses[i])]
            \o <<StatData(_t(Str("quadrants")), <<>>)>>
            \o [i \in 1..4 |-> quadrant(i)]
            \o <<StatData(_t(Str("hemispheres")), <<>>)>>
            \o [i \in 1..Len(Hemispheres) |-> hemisphere(Hemispheres[i])]
            \o <<StatData(_t(Str("aspects")), <<>>)>>
            \o [i \in 1..Len(data1.aspects) |-> aspect(data1.aspects[i])]

\* the report is built entry by entry: basic_info first, then the
\* distributions, the first of which to raise ends the call
full_report ==
    IF \E k \in 1..Len(DistKind) : distribution(DistKind[k]).exc # "None"
    THEN LET k == CHOOSE j \in 1..Len(DistKind) :
                    /\ distribution(DistKind[j]).exc # "None"
                    /\ \A m \in 1..(j - 1) : distribution(DistKind[m]).exc = "None"
         IN  Res(distribution(DistKind[k]).exc, <<>>, k)
    ELSE Res("None", FullReportEntries, Len(FullReportEntries))

\* Stats defines no composite_report: looking the attribute up raises
composite_report == Res("AttributeError", <<>>, 0)

\* table_of with the full report as the default branch
table_of_default_full(report_kind) ==
    IF report_kind = "composite" THEN composite_report ELSE full_report

table_of(report_kind) ==
    IF report_kind = "full" THEN full_report
    ELSE IF report_kind = "composite" THEN composite_report
    ELSE Ok(<<>>)

----------------------------------------------------------------------------
(* Stats(data1, data2, lang) constructed over a bounded chart, then called *)

StatsLangs == {"en", "ru"}

NoConfig == [theme_type |-> "None"]

NoData == [planets |-> <<>>, houses |-> <<>>, aspects |-> <<>>]

\* Stats.__init__
InitStats ==
    /\ lang \in StatsLangs
    /\ data1 \in DataSet
    /\ data2 \in {<<>>, <<data1>>}
    /\ composite_pairs =
          IF data2 # <<>> THEN composite_aspects_pairs(data1, data2[1]) ELSE <<>>
    /\ composite_aspects = calculate_aspects(composite_pairs)
    /\ config = NoConfig
    /\ nops = 0
    /\ call = [op |-> "init", arg |-> "None"]
    /\ ret = Ok(<<>>)

StatsUnchanged ==
    UNCHANGED <<lang, data1, data2, composite_pairs, composite_aspects, config,
                nops>>

CallBasicInfo ==
    /\ call.op = "init"
    /\ call' = [op |-> "basic_info", arg |-> "data1"]
    /\ ret' = Res("None", basic_info(data1), 1)
    /\ StatsUnchanged

CallDistribution ==
    /\ call.op = "init"
    /\ \E k \in 1..Len(DistKind) :
          /\ call' = [op |-> "distribution", arg |-> DistKind[k]]
          /\ ret' = distribution(DistKind[k])
    /\ StatsUnchanged

CallFullReport ==
    /\ call.op = "init"
    /\ call' = [op |-> "full_report", arg |-> "None"]
    /\ ret' = full_report
    /\ StatsUnchanged

ReportKindArgs == {"full", "composite", "bogus", "FULL"}

CallTableOf ==
    /\ call.op = "init"
    /\ \E kind \in ReportKindArgs :
          /\ call' = [op |-> "table_of", arg |-> kind]
          /\ ret' = table_of(kind)
    /\ StatsUnchanged

NextStats ==
    \/ CallBasicInfo
    \/ CallDistribution
    \/ CallFullReport
    \/ CallTableOf

SpecStats == InitStats /\ [][NextStats]_vars

----------------------------------------------------------------------------
(* dignity_of called on bounded bodies and signs *)

DignityBodies == {"sun", "mars"}

DignityRulers == DignityBodies \cup {"None"}

DignitySigns ==
    [ruler : DignityRulers, classic_ruler : DignityRulers,
     detriment : DignityRulers, classic_detriment : DignityRulers,
     exaltation : DignityRulers, fall : DignityRulers]

DignityLangs == {"en", "ru", "fr"}

InitDignity ==
    /\ lang \in DignityLangs
    /\ data1 = NoData
    /\ data2 = <<>>
    /\ composite_pairs = <<>>
    /\ composite_aspects = <<>>
    /\ config = NoConfig
    /\ nops = 0
    /\ call = [op |-> "init", arg |-> "None"]
    /\ ret = Ok(<<>>)

CallDignityOf ==
    /\ call.op = "init"
    /\ \E name \in DignityBodies, sign \in DignitySigns :
          /\ call' = [op |-> "dignity_of", arg |-> [name |-> name, sign |-> sign]]
          /\ ret' = Ok(dignity_of([name |-> name, sign |-> sign], data1))
    /\ StatsUnchanged

NextDignity == CallDignityOf

SpecDignity == InitDignity /\ [][NextDignity]_vars

----------------------------------------------------------------------------
(* The claims about Stats *)

RECURSIVE SumCells(_, _, _)
\* the sum of the numbers in column col of the rows of a grid, from row i on
SumCells(grid, col, i) ==
    IF i > Len(grid) THEN 0
    ELSE grid[i][col][1].parts[1] + SumCells(grid, col, i + 1)

Abs(x) == IF x < 0 THEN -x ELSE x

\* C1: table_of(composite) returns normally, with a composite report (a
\* sequence of entries that starts, like the full report, with the basic
\* information), whether or not the Stats was built with data2.
C1_CompositeReturnsReport ==
    (call.op = "table_of" /\ call.arg = "composite") =>
        /\ ret.exc = "None"
        /\ Len(ret.val) >= 1
        /\ ret.built = Len(ret.val)

\* C2: distribution(kind) on a chart with no planets returns normally, with
\* one row per category member, each with count 0 and 0%.
C2_EmptyChartDistribution ==
    (call.op = "distribution" /\ Len(data1.planets) = 0) =>
        /\ ret.exc = "None"
        /\ Len(ret.val.grid) = Len(MembersOf(call.arg))
        /\ \A i \in 1..Len(ret.val.grid) :
              /\ ret.val.grid[i][2] = Fmt(0, "int")
              /\ ret.val.grid[i][3] = Fmt(0, "pct")

\* C3 as stated: on a chart with planets the counts of distribution(kind) sum
\* to the number of planets and the percentages of its rows sum to 100.
C3_PercentagesSumTo100 ==
    (call.op = "distribution" /\ Len(data1.planets) > 0) =>
        /\ ret.exc = "None"
        /\ SumCells(ret.val.grid, 2, 1) = Len(data1.planets)
        /\ SumCells(ret.val.grid, 3, 1) = 10000

\* C3 as amended: on a chart with planets, distribution(kind) has one row per
\* category member, the counts sum to the number of planets (every planet is
\* counted in exactly one row), and the percentages, each rounded to two
\* decimals, sum to 100 to within half a hundredth per row.
C3_DistributionPartition ==
    (call.op = "distribution" /\ Len(data1.planets) > 0) =>
        /\ ret.exc = "None"
        /\ Len(ret.val.grid) = Len(MembersOf(call.arg))
        /\ SumCells(ret.val.grid, 2, 1) = Len(data1.planets)
        /\ \A i \in 1..Len(ret.val.grid) :
              ret.val.grid[i][2][1].parts[1] =
                  Cardinality({p \in 1..Len(data1.planets) :
                      data1.planets[p].sign[call.arg] = MembersOf(call.arg)[i]})
        /\ 2 * Abs(SumCells(ret.val.grid, 3, 1) - 10000) <= Len(ret.val.grid)

\* a chart of three planets in three elements: 33.33% three times
C3_Witness ==
    /\ call.op = "distribution"
    /\ call.arg = "element"
    /\ Len(data1.planets) = 3
    /\ ret.exc = "None"
    /\ SumCells(ret.val.grid, 2, 1) = 3
    /\ SumCells(ret.val.grid, 3, 1) = 9999

HeaderPositions ==
    LET np == Len(data1.planets)
        nh == Len(data1.houses)
    IN  {5, 6 + np, 7 + np + nh, 12 + np + nh, 17 + np + nh}

\* C5: full_report() returns the fixed sequence: basic info, the three
\* distributions, a header and one entry per planet, a header and one entry
\* per house, a header and quadrants 1..4, a header and the four hemispheres,
\* a header and one entry per aspect; its length is
\* 17 + len(planets) + len(houses) + len(aspects), and the five headers have
\* an empty grid.
C5_FullReportSequence ==
    call.op = "full_report" =>
        LET np == Len(data1.planets)
            nh == Len(data1.houses)
            na == Len(data1.aspects)
            r == ret.val
        IN  /\ ret.exc = "None"
            /\ Len(r) = 1 + 3 + 1 + np + 1 + nh + 1 + 4 + 1 + 4 + 1 + na
            /\ r[1] = basic_info(data1)
            /\ \A k \in 1..3 : r[1 + k] = distribution(DistKind[k]).val
            /\ \A i \in 1..np : r[5 + i] = celestial_body(data1.planets[i])
            /\ \A i \in 1..nh : r[6 + np + i] = house(data1.houses[i])
            /\ \A i \in 1..4 : r[7 + np + nh + i] = quadrant(i)
            /\ \A i \in 1..4 : r[12 + np + nh + i] = hemisphere(Hemispheres[i])
            /\ \A i \in 1..na : r[17 + np + nh + i] = aspect(data1.aspects[i])
            /\ \A i \in HeaderPositions : r[i].grid = <<>>

\* C9: table_of of anything but full and composite returns the empty
\* sequence, raises nothing and builds no entry.
C9_UnknownKindEmpty ==
    (call.op = "table_of" /\ call.arg \notin ReportKind) =>
        ret = Res("None", <<>>, 0)

C9_Witness ==
    /\ call.op = "table_of"
    /\ call.arg = "bogus"
    /\ ret.val = <<>>
    /\ Len(data1.planets) > 0

DignityLabels == {"ruler", "detriment", "exaltation", "fall"}

\* C10: dignity_of never raises and returns exactly one label, in the
\* priority ruler > detriment > exaltation > fall: the translated "ruler" iff
\* the body is the sign's modern or classical ruler; else "detriment" iff it
\* is the modern or classical detriment; else "exaltation" iff it is the
\* exaltation; else "fall" iff it is the fall; else the empty string.
C10_DignityPriority ==
    call.op = "dignity_of" =>
        LET b == call.arg.name
            s == call.arg.sign
            isRuler == s.ruler = b \/ s.classic_ruler = b
            isDetriment == s.detriment = b \/ s.classic_detriment = b
            isExaltation == s.exaltation = b
            isFall == s.fall = b
            T(label) == get_translation(Str(label), lang)
        IN  /\ ret.exc = "None"
            /\ ret.val \in {<<>>} \cup {T(label) : label \in DignityLabels}
            /\ ret.val = T("ruler") <=> isRuler
            /\ ret.val = T("detriment") <=> (~isRuler /\ isDetriment)
            /\ ret.val = T("exaltation") <=>
                  (~isRuler /\ ~isDetriment /\ isExaltation)
            /\ ret.val = T("fall") <=>
                  (~isRuler /\ ~isDetriment /\ ~isExaltation /\ isFall)
            /\ ret.val = <<>> <=>
                  ~(isRuler \/ isDetriment \/ isExaltation \/ isFall)

\* a body that is its sign's detriment, exaltation and fall at once
C10_Witness ==
    /\ call.op = "dignity_of"
    /\ lang = "ru"
    /\ call.arg.sign.ruler # call.arg.name
    /\ call.arg.sign.classic_ruler # call.arg.name
    /\ call.arg.sign.classic_detriment = call.arg.name
    /\ call.arg.sign.exaltation = call.arg.name
    /\ call.arg.sign.fall = call.arg.name
    /\ ret.val = <<[parts |-> <<"detriment">>, cs |-> "ru"]>>

----------------------------------------------------------------------------
(* get_translation called on bounded texts *)

TextTokens ==
    { Word("house"), [parts |-> <<"house">>, cs |-> "title"],
      UWord("asc", "node"), UWord("unknown", "term"), Word("3"), Word("extra") }

Texts == UNION { [1..n -> TextTokens] : n \in 0..MaxTextLen }

CallLangs == {"en", "ru", "fr"}

InitTranslation ==
    /\ lang = "en"
    /\ data1 = NoData
    /\ data2 = <<>>
    /\ composite_pairs = <<>>
    /\ composite_aspects = <<>>
    /\ config = NoConfig
    /\ nops = 0
    /\ call = [op |-> "init", arg |-> "None"]
    /\ ret = Ok(<<>>)

CallGetTranslation ==
    /\ call.op = "init"
    /\ \E text \in Texts, l \in CallLangs :
          /\ call' = [op |-> "get_translation",
                      arg |-> [text |-> text, lang |-> l]]
          /\ ret' = Ok(get_translation(text, l))
    /\ StatsUnchanged

NextTranslation == CallGetTranslation

SpecTranslation == InitTranslation /\ [][NextTranslation]_vars

\* the lookup contract as the specification words it
TranslationContract(text, l) ==
    IF l = "en" THEN Title(text)
    ELSE LET key == Lower(text)
         IN  IF /\ Len(key) = 2
                /\ key[1].parts \in DOMAIN TRANSLATIONS
                /\ IsDigit(key[2])
             THEN IF l \in DOMAIN TRANSLATIONS[key[1].parts]
                  THEN <<TRANSLATIONS[key[1].parts][l], key[2]>>
                  ELSE Title(text)
             ELSE Lookup(key, l, Title(text))

\* C4: get_translation(text, lang) returns, for every text and language, what
\* the lookup contract says: the title-cased text for "en"; the translation of
\* the term followed by its number for a table term with a trailing number;
\* the table's translation of the text; the title-cased text when the table
\* has no entry.  No word of the text is dropped and no input makes it fail.
C4_TranslationMatchesContract ==
    call.op = "get_translation" =>
        /\ ret.exc = "None"
        /\ ret.val = TranslationContract(call.arg.text, call.arg.lang)

----------------------------------------------------------------------------
(* Dictable, and the models built on it *)

\* Dictable.__setitem__: setattr(self, key, value)
setitem(obj, key, value) == [obj EXCEPT ![key] = value]

RECURSIVE SetAll(_, _, _)
\* for key, value in mapping.items(): setattr(self, key, value)
SetAll(obj, mapping, keys) ==
    IF keys = {} THEN obj
    ELSE LET key == CHOOSE k \in keys : TRUE
         IN  SetAll(setitem(obj, key, mapping[key]), mapping, keys \ {key})

\* update with the kwargs set first and the mapping after them
update_mapping_last(obj, other, kwargs) ==
    LET first == SetAll(obj, kwargs, DOMAIN kwargs)
    IN  IF other # <<>> THEN SetAll(first, other[1], DOMAIN other[1]) ELSE first

\* Dictable.update(other, **kwargs); other is <<>> for None, <<m>> for a
\* mapping m
update(obj, other, kwargs) ==
    LET first == IF other # <<>>
                 THEN SetAll(obj, other[1], DOMAIN other[1]) ELSE obj
    IN  SetAll(first, kwargs, DOMAIN kwargs)

Orb ==
    [conjunction |-> 7, opposition |-> 6, trine |-> 6, square |-> 6,
     sextile |-> 5, quincunx |-> 0]

\* the fields Theme declares with a default; transparency is 0.1
ThemeDefaults ==
    [fire |-> "#ef476f", earth |-> "#ffd166", air |-> "#06d6a0",
     water |-> "#81bce7", points |-> "#118ab2", asteroids |-> "#AA96DA",
     positive |-> "#FFC0CB", negative |-> "#AD8B73", others |-> "#FFA500",
     transparency |-> "0.1"]

\* Theme(**kwargs): the declared defaults, then the keyword arguments
Theme(kwargs) ==
    [k \in DOMAIN ThemeDefaults \cup DOMAIN kwargs |->
        IF k \in DOMAIN kwargs THEN kwargs[k] ELSE ThemeDefaults[k]]

LightTheme ==
    Theme([foreground |-> "#758492", background |-> "#FFFDF1", dim |-> "#A4BACD"])

DarkTheme ==
    Theme([foreground |-> "#F7F3F0", background |-> "#343a40", dim |-> "#515860"])

Display ==
    [sun |-> TRUE, moon |-> TRUE, mercury |-> TRUE, venus |-> TRUE,
     mars |-> TRUE, jupiter |-> TRUE, saturn |-> TRUE, uranus |-> TRUE,
     neptune |-> TRUE, pluto |-> TRUE, asc_node |-> TRUE, chiron |-> FALSE,
     ceres |-> FALSE, pallas |-> FALSE, juno |-> FALSE, vesta |-> FALSE,
     asc |-> TRUE, ic |-> FALSE, dsc |-> FALSE, mc |-> TRUE]

\* the float fields are kept as their literals
Chart ==
    [stroke_width |-> 1, stroke_opacity |-> "1", font |-> "sans-serif",
     font_size_fraction |-> "0.55", inner_min_degree |-> "9",
     outer_min_degree |-> "8", margin_factor |-> "0.04",
     ring_thickness_fraction |-> "0.15", scale_adj_factor |-> "600",
     pos_adj_factor |-> "2.2"]

\* Config(): every field at its default
Config ==
    [theme_type |-> "dark", house_sys |-> "P", orb |-> Orb,
     light_theme |-> LightTheme, dark_theme |-> DarkTheme,
     display |-> Display, chart |-> Chart]

\* the mono theme without the transparency override
mono_theme_gray_transparency(cfg) ==
    [[key \in DOMAIN cfg.light_theme |-> "#888888"]
        EXCEPT !["background"] = "#FFFFFF"]

\* kwargs = {key: "#888888" for key in self.light_theme.model_dump()}, then
\* background and transparency
mono_theme(cfg) ==
    [[key \in DOMAIN cfg.light_theme |-> "#888888"]
        EXCEPT !["background"] = "#FFFFFF", !["transparency"] = "0"]

NoTheme == [background |-> "None"]

\* Config.theme: ref names the object returned: the stored light_theme or
\* dark_theme, a Theme constructed by this read ("new"), or None
theme(cfg) ==
    CASE cfg.theme_type = "light" ->
            [ref |-> "light_theme", theme |-> cfg.light_theme]
      [] cfg.theme_type = "dark" ->
            [ref |-> "dark_theme", theme |-> cfg.dark_theme]
      [] cfg.theme_type = "mono" ->
            [ref |-> "new", theme |-> Theme(mono_theme(cfg))]
      [] OTHER -> [ref |-> "None", theme |-> NoTheme]

----------------------------------------------------------------------------
(* A Config constructed, then set, updated and read *)

RECURSIVE MappingsOver(_, _)
\* every mapping that gives some of the keys one of the values vals has for it
MappingsOver(vals, keys) ==
    IF keys = {} THEN {<<>>}
    ELSE LET key == CHOOSE k \in keys : TRUE
             rest == MappingsOver(vals, keys \ {key})
         IN  rest \cup {(key :> v) @@ m : v \in vals[key], m \in rest}

TypedMappings(vals) == MappingsOver(vals, DOMAIN vals)

\* the values the calls of the model give each field of each object
ThemeTypeValues == {"light", "dark", "mono", "sepia"}

ThemeValues ==
    { DarkTheme, [LightTheme EXCEPT !.fire = "#000000", !.dim = "#333333"] }

CallValues ==
    [config |-> [theme_type |-> ThemeTypeValues, house_sys |-> {"K"}],
     orb |-> [conjunction |-> {8, 9}, quincunx |-> {3}],
     light_theme |-> [fire |-> {"#000000", "#111111"},
                      background |-> {"#222222"}, transparency |-> {"0.5"}],
     dark_theme |-> [fire |-> {"#000000", "#111111"}, background |-> {"#222222"}],
     display |-> [sun |-> {TRUE, FALSE}, chiron |-> {TRUE}],
     chart |-> [stroke_width |-> {2, 3}, font |-> {"serif"}]]

\* the one key of each object the model also passes as a keyword argument
KwargKey ==
    [config |-> "theme_type", orb |-> "conjunction", light_theme |-> "fire",
     dark_theme |-> "fire", display |-> "sun", chart |-> "stroke_width"]

Targets == DOMAIN CallValues

\* the object a call is made on: the Config or one of its nested models
Target(cfg, tgt) == IF tgt = "config" THEN cfg ELSE cfg[tgt]

InitConfig ==
    /\ lang = "en"
    /\ data1 = NoData
    /\ data2 = <<>>
    /\ composite_pairs = <<>>
    /\ composite_aspects = <<>>
    /\ config = Config
    /\ nops = 0
    /\ call = [op |-> "init", arg |-> "None"]
    /\ ret = Ok(<<>>)

ConfigUnchanged ==
    UNCHANGED <<lang, data1, data2, composite_pairs, composite_aspects>>

\* config[key] = value
ConfigSet ==
    /\ nops < MaxOps
    /\ \E key \in {"theme_type", "light_theme", "dark_theme"} :
       \E value \in IF key = "theme_type" THEN ThemeTypeValues ELSE ThemeValues :
          /\ config' = setitem(config, key, value)
          /\ call' = [op |-> "set", arg |-> [key |-> key, value |-> value]]
    /\ nops' = nops + 1
    /\ ret' = Ok(<<>>)
    /\ ConfigUnchanged

\* config.update(other, **kwargs), and update on a nested model
ConfigUpdate ==
    /\ nops < MaxOps
    /\ \E tgt \in Targets :
       \E other \in {<<>>} \cup {<<m>> : m \in TypedMappings(CallValues[tgt])} :
       \E kwargs \in TypedMappings(
                        [k \in {KwargKey[tgt]} |-> CallValues[tgt][k]]) :
          /\ config' = IF tgt = "config" THEN update(config, other, kwargs)
                       ELSE [config EXCEPT ![tgt] = update(config[tgt], other, kwargs)]
          /\ call' = [op |-> "update",
                      arg |-> [target |-> tgt, other |-> other, kwargs |-> kwargs]]
    /\ nops' = nops + 1
    /\ ret' = Ok(<<>>)
    /\ ConfigUnchanged

\* config.theme
ReadTheme ==
    /\ call' = [op |-> "theme", arg |-> "None"]
    /\ ret' = Ok(theme(config))
    /\ UNCHANGED <<config, nops>>
    /\ ConfigUnchanged

NextConfig ==
    \/ ConfigSet
    \/ ConfigUpdate
    \/ ReadTheme

SpecConfig == InitConfig /\ [][NextConfig]_vars

----------------------------------------------------------------------------
(* The claims about Config *)

\* C6: after any sequence of set and update calls, the theme property
\* returns the stored light_theme when theme_type is light, the stored
\* dark_theme when it is dark, a synthesized theme when it is mono, and never
\* returns no theme.
C6_ThemeFollowsThemeType ==
    call.op = "theme" =>
        /\ ret.val.ref # "None"
        /\ config.theme_type = "light" =>
              ret.val = [ref |-> "light_theme", theme |-> config.light_theme]
        /\ config.theme_type = "dark" =>
              ret.val = [ref |-> "dark_theme", theme |-> config.dark_theme]
        /\ config.theme_type = "mono" => ret.val.ref = "new"

\* C7: update(mapping, **kwargs) on a Config, Orb, Theme, Display or Chart
\* leaves every provided key holding the provided value, a keyword argument
\* winning over the same key of the mapping, and every other field, of the
\* object and of the rest of the Config, holding the value it had.
C7_UpdateOnlyProvidedKeys ==
    [][call'.op = "update" =>
        LET tgt == call'.arg.target
            other == call'.arg.other
            kwargs == call'.arg.kwargs
            before == Target(config, tgt)
            after == Target(config', tgt)
        IN  /\ DOMAIN after = DOMAIN before
            /\ \A k \in DOMAIN before :
                  after[k] =
                      IF k \in DOMAIN kwargs THEN kwargs[k]
                      ELSE IF other # <<>> /\ k \in DOMAIN other[1] THEN other[1][k]
                      ELSE before[k]
            /\ tgt # "config" =>
                  \A f \in DOMAIN config \ {tgt} : config'[f] = config[f]
            /\ DOMAIN config' = DOMAIN config]_vars

\* an update whose keyword argument and mapping give one key two values,
\* made on an object that an earlier call has changed
C7_Witness ==
    /\ call.op = "update"
    /\ nops = 2
    /\ call.arg.other # <<>>
    /\ \E k \in DOMAIN call.arg.kwargs :
          /\ k \in DOMAIN call.arg.other[1]
          /\ call.arg.other[1][k] # call.arg.kwargs[k]
          /\ Target(config, call.arg.target)[k] = call.arg.kwargs[k]
    /\ \E k \in DOMAIN Target(config, call.arg.target) :
          /\ k \notin DOMAIN call.arg.kwargs
          /\ k \notin DOMAIN call.arg.other[1]
          /\ Target(config, call.arg.target)[k] # Target(Config, call.arg.target)[k]

\* C8: when theme_type is mono, the theme read has background "#FFFFFF",
\* transparency 0 and every other field of the light theme's field set equal
\* to "#888888", whatever the stored themes hold; the read constructs it and
\* leaves the Config, its light_theme and dark_theme included, unchanged.
C8_MonoThemeSynthesized ==
    [][(call'.op = "theme" /\ config'.theme_type = "mono") =>
        /\ config' = config
        /\ ret'.exc = "None"
        /\ ret'.val.ref = "new"
        /\ DOMAIN ret'.val.theme = DOMAIN config.light_theme
        /\ \A k \in DOMAIN ret'.val.theme :
              ret'.val.theme[k] =
                  CASE k = "background" -> "#FFFFFF"
                    [] k = "transparency" -> "0"
                    [] OTHER -> "#888888"]_vars

\* the mono theme read from a Config whose light theme was changed
C8_Witness ==
    /\ call.op = "theme"
    /\ config.theme_type = "mono"
    /\ config.light_theme.transparency = "0.5"
    /\ config.light_theme.background = "#222222"
    /\ ret.val.theme.background = "#FFFFFF"
    /\ ret.val.theme.transparency = "0"
    /\ ret.val.theme.fire = "#888888"

====
